---- MODULE Spec2Model ----
(***************************************************************************)
(* State-machine model of Shielding/Geant4Demo.py: the B2a detector        *)
(* construction, its UI messenger, the tracker sensitive detector with its *)
(* hits collection, the event action and the main script.                  *)
(*                                                                         *)
(* The Geant4 toolkit is the fixed collaborator.  Of it the model keeps    *)
(* only what the script's callbacks read and write: the material table,    *)
(* the material of each logical volume, the application state that gates   *)
(* the UI commands, the hits-collection container of the current event    *)
(* and the order in which the run manager invokes the callbacks.           *)
(*                                                                         *)
(* Lengths are in Geant4 internal units (mm = 1, cm = 10).  The float      *)
(* arithmetic of DefineVolumes is done on integers; every quotient taken   *)
(* is exact for the configurations enumerated below.                       *)
(***************************************************************************)
EXTENDS Integers, Sequences, FiniteSets, TLC

VARIABLES
    \* ---- main script ----
    argc,               \* len(sys.argv)
    ui,                 \* the UI session: "None" or "G4UIExecutive"
    pcMain,             \* statement of the main script being executed
    mainLog,            \* macros executed and session calls made, in order
    err,                \* "none", or the error that ended the program
    \* ---- toolkit ----
    appState,           \* G4ApplicationState
    materialTable,      \* materials built so far
    lvMaterial,         \* material of every logical volume created
    hce,                \* G4HCofThisEvent of the current event: hcID -> collection
    heap,               \* B2HitsCollection objects of the current event: id -> .collection
    runNo, eventID, toGo,
    \* ---- B2aDetectorConstruction ----
    fNbOfChambers, fLogicChamber, fTargetMaterial, fChamberMaterial,
    fLogicTarget, fStepLimit,
    chamberSpacing, chamberWidth,   \* locals of DefineVolumes
    nConstructs,        \* number of Construct calls made
    constructLog,       \* toolkit calls made by the latest Construct, in order
    constructRet,       \* value returned by the latest Construct
    \* ---- B2TrackerSD ----
    fHitsCollection,    \* id of the SD's current collection, Missing if unset
    \* ---- B2aDetectorMessenger ----
    lastCmd,            \* arguments of the latest SetNewValue
    calls,              \* detector setters that SetNewValue invoked
    \* ---- B2EventAction ----
    reported,           \* <<n>> once an event has printed "n hits stored", n the latest
    \* ---- history ----
    stepsThisEvent      \* steps handed to ProcessHits in the current event

mainVars == <<argc, ui, pcMain, mainLog>>
tkVars   == <<appState, materialTable, lvMaterial, hce, heap,
              runNo, eventID, toGo>>
detVars  == <<fNbOfChambers, fLogicChamber, fTargetMaterial, fChamberMaterial,
              fLogicTarget, fStepLimit, chamberSpacing, chamberWidth,
              nConstructs, constructLog, constructRet>>
sdVars   == <<fHitsCollection, reported, stepsThisEvent>>
msgVars  == <<lastCmd, calls>>
vars     == <<mainVars, err, tkVars, detVars, sdVars, msgVars>>

----------------------------------------------------------------------------
(* Bounds of the model *)
MaxConstructs == 2      \* Construct calls (initialisation + re-initialisation)
MaxRuns == 1            \* beamOn commands
MaxEventsPerRun == 2    \* events of one beamOn
MaxHits == 2            \* ProcessHits calls per event
MaxChambers == 2        \* chamber counts 0..MaxChambers of the configurations

(* Program constants *)
cm == 10
NbOfChambers == 5
ChamberSpacingCm == 80
ChamberWidthCm == 20
TargetLengthCm == 5
ReportEvery == 100

(* Errors that end the program *)
ZeroDivision      == "ZeroDivisionError: float division by zero"
FatalException    == "G4Exception InvalidSetup FatalException Width>Spacing"
NoTargetMaterial  == "AttributeError: no attribute 'fTargetMaterial'"
NoChamberMaterial == "AttributeError: no attribute 'fChamberMaterial'"
NoLogicTarget     == "AttributeError: no attribute 'fLogicTarget'"
NoStepLimit       == "AttributeError: no attribute 'fStepLimit'"
NoHitsCollection  == "AttributeError: no attribute 'fHitsCollection'"
ChamberIndex      == "IndexError: list index out of range"
NoneGetSize       == "AttributeError: 'NoneType' object has no attribute 'GetSize'"
NoneIsGUI         == "AttributeError: 'NoneType' object has no attribute 'IsGUI'"
NoneSessionStart  == "AttributeError: 'NoneType' object has no attribute 'SessionStart'"

(* Python values *)
None == "None"
Unset == "<unset>"      \* an attribute never assigned: reading it raises


Obj(call, kind, idx) == [call |-> call, kind |-> kind, idx |-> idx]
NoneObj == Obj(0, "None", 0)
UnsetObj == Obj(0, Unset, 0)
Missing == UnsetObj     \* fHitsCollection before its first assignment

(* G4NistManager: the names FindOrBuildMaterial can build *)
NistMaterials == {"G4_AIR", "G4_Pb", "G4_Xe", "G4_Fe"}

FindOrBuildMaterial(name) == IF name \in NistMaterials THEN name ELSE None

BuiltBy(table, name) ==
    IF name \in NistMaterials THEN table \cup {name} ELSE table

GetMaterial(table, name) == IF name \in table THEN name ELSE None

----------------------------------------------------------------------------
(* One toolkit call made during Construct, as recorded in constructLog. *)
Call(op, name, obj, solid, mat, mother, copyNo, size) ==
    [op |-> op, name |-> name, obj |-> obj, solid |-> solid, mat |-> mat,
     mother |-> mother, copyNo |-> copyNo, size |-> size]

BuildMaterial(name) ==
    Call("FindOrBuildMaterial", name, NoneObj, NoneObj, FindOrBuildMaterial(name),
         NoneObj, 0, 0)

Solid(call, name, idx, size) ==
    Call("Solid", name, Obj(call, name, idx), NoneObj, None, NoneObj, 0, size)

LogicalVolume(lv, solid, mat) ==
    Call("G4LogicalVolume", lv.kind, lv, solid, mat, NoneObj, 0, 0)

PVPlacement(lv, name, mother, copyNo) ==
    Call("G4PVPlacement", name, lv, NoneObj, None, mother, copyNo, 0)

NoPV == Call("None", "None", NoneObj, NoneObj, None, NoneObj, 0, 0)

(* B2aDetectorConstruction.DefineMaterials *)
DefineMaterials(table) ==
    [ materialTable |-> BuiltBy(BuiltBy(BuiltBy(table, "G4_AIR"), "G4_Pb"), "G4_Xe"),
      fTargetMaterial |-> FindOrBuildMaterial("G4_Pb"),
      fChamberMaterial |-> FindOrBuildMaterial("G4_Xe"),
      log |-> << BuildMaterial("G4_AIR"), BuildMaterial("G4_Pb"), BuildMaterial("G4_Xe") >> ]

WithMaterial(lvm, lv, mat) ==
    [x \in DOMAIN lvm \cup {lv} |-> IF x = lv THEN mat ELSE lvm[x]]

----------------------------------------------------------------------------
(* Variant of ChamberIteration: every chamber placed with copy number 0.  *)
ChamberIterationCopyZero(copyNo, st, c) ==
    LET rmax     == c.rmaxFirst + copyNo * c.rmaxIncr
        chamberS == Solid(c.call, "Chamber_solid", copyNo, rmax)
        newLV    == Obj(c.call, "Chamber_LV", copyNo)
        grown    == Append(st.fLogicChamber, newLV)
        placed   == grown[copyNo + 1]
    IN  [ fLogicChamber |-> grown,
          lvMaterial |-> WithMaterial(st.lvMaterial, newLV, c.fChamberMaterial),
          log |-> st.log \o << chamberS,
                               LogicalVolume(newLV, chamberS.obj, c.fChamberMaterial),
                               PVPlacement(placed, "Chamber_PV", c.trackerLV, 0) >> ]

(* B2aDetectorConstruction.DefineVolumes, body of the chamber loop:        *)
(* st = [fLogicChamber, lvMaterial, log], c = the locals the body reads.   *)
ChamberIteration(copyNo, st, c) ==
    LET rmax     == c.rmaxFirst + copyNo * c.rmaxIncr
        chamberS == Solid(c.call, "Chamber_solid", copyNo, rmax)
        newLV    == Obj(c.call, "Chamber_LV", copyNo)
        grown    == Append(st.fLogicChamber, newLV)          \* fLogicChamber += [...]
        placed   == grown[copyNo + 1]                        \* fLogicChamber[copyNo]
    IN  [ fLogicChamber |-> grown,
          lvMaterial |-> WithMaterial(st.lvMaterial, newLV, c.fChamberMaterial),
          log |-> st.log \o << chamberS,
                               LogicalVolume(newLV, chamberS.obj, c.fChamberMaterial),
                               PVPlacement(placed, "Chamber_PV", c.trackerLV, copyNo) >> ]

RECURSIVE ChamberLoop(_, _, _)
ChamberLoop(copyNo, st, c) ==
    IF copyNo >= c.fNbOfChambers THEN st
    ELSE ChamberLoop(copyNo + 1, ChamberIteration(copyNo, st, c), c)

(* Lines 160-233: world, target and tracker. *)
WorldTargetTracker(call, N, spacing, table, tgtMat, lvm) ==
    LET air           == GetMaterial(table, "G4_AIR")
        targetLength  == TargetLengthCm * cm
        trackerLength == (N + 1) * spacing
        worldLength   == (12 * (2 * targetLength + trackerLength)) \div 10
        targetRadius  == targetLength \div 2
        trackerSize   == trackerLength \div 2
        worldS        == Solid(call, "world", 0, worldLength \div 2)
        worldLV       == Obj(call, "World", 0)
        targetS       == Solid(call, "target", 0, targetRadius)
        targetLV      == Obj(call, "Target", 0)
        trackerS      == Solid(call, "tracker", 0, trackerSize)
        trackerLV     == Obj(call, "Tracker", 0)
    IN  [ worldLV |-> worldLV, trackerLV |-> trackerLV, fLogicTarget |-> targetLV,
          worldPV |-> PVPlacement(worldLV, "World", NoneObj, 0),
          trackerLength |-> trackerLength, trackerSize |-> trackerSize,
          lvMaterial |-> WithMaterial(WithMaterial(WithMaterial(lvm,
                             worldLV, air), targetLV, tgtMat), trackerLV, air),
          log |-> << worldS,
                     LogicalVolume(worldLV, worldS.obj, air),
                     PVPlacement(worldLV, "World", NoneObj, 0),
                     targetS,
                     LogicalVolume(targetLV, targetS.obj, tgtMat),
                     PVPlacement(targetLV, "Target", worldLV, 0),
                     trackerS,
                     LogicalVolume(trackerLV, trackerS.obj, air),
                     PVPlacement(trackerLV, "Tracker", worldLV, 0) >> ]

(* Lines 255-260: the outcome of the guard that precedes the chamber loop. *)
ChamberGuard(N, spacing, width) ==
    IF N > 0
    THEN IF N - 1 = 0 THEN ZeroDivision             \* line 257 divides by N-1
         ELSE IF spacing < width THEN FatalException
         ELSE "none"
    ELSE "none"

(* B2aDetectorConstruction.DefineVolumes.  An error leaves the assignments *)
(* made before it in place and returns nothing.                            *)
DefineVolumes(call, N, spacing, width, table, tgtMat, chMat, logicChamber, lvm, stepLimit) ==
    LET w            == WorldTargetTracker(call, N, spacing, table, tgtMat, lvm)
        firstLength  == w.trackerLength \div 10
        lastLength   == w.trackerLength
        guard        == ChamberGuard(N, spacing, width)
        c == [ call |-> call, fNbOfChambers |-> N, trackerLV |-> w.trackerLV,
               fChamberMaterial |-> chMat,
               firstPosition |-> spacing - w.trackerSize,
               halfWidth |-> width \div 2,
               rmaxFirst |-> firstLength \div 2,
               rmaxIncr |-> IF N > 1 THEN ((lastLength - firstLength) \div 2) \div (N - 1)
                            ELSE 0 ]
        st0 == [ fLogicChamber |-> logicChamber, lvMaterial |-> w.lvMaterial,
                 log |-> w.log ]
        st  == IF guard = "none" THEN ChamberLoop(0, st0, c) ELSE st0
    IN  [ err |-> guard,
          fLogicTarget |-> w.fLogicTarget,
          fLogicChamber |-> st.fLogicChamber,
          lvMaterial |-> st.lvMaterial,
          fStepLimit |-> IF guard = "none" THEN << width \div 2 >> ELSE stepLimit,
          log |-> st.log,
          ret |-> IF guard = "none" THEN w.worldPV ELSE NoPV ]

(* B2aDetectorConstruction.Construct: d holds the fields and locals read.  *)
Construct(call, d, table, lvm) ==
    LET m == DefineMaterials(table)
        v == DefineVolumes(call, d.fNbOfChambers, d.chamberSpacing, d.chamberWidth,
                           m.materialTable, m.fTargetMaterial, m.fChamberMaterial,
                           d.fLogicChamber, lvm, d.fStepLimit)
    IN  [ err |-> v.err,
          materialTable |-> m.materialTable,
          fTargetMaterial |-> m.fTargetMaterial,
          fChamberMaterial |-> m.fChamberMaterial,
          fLogicTarget |-> v.fLogicTarget,
          fLogicChamber |-> v.fLogicChamber,
          lvMaterial |-> v.lvMaterial,
          fStepLimit |-> v.fStepLimit,
          log |-> m.log \o v.log,
          ret |-> v.ret ]

----------------------------------------------------------------------------
(* B2aDetectorConstruction setters.  Each returns the error it raises (or  *)
(* "none") and the fields and toolkit state it leaves behind.              *)
SetTargetMaterial(materialName, tgtMat, logicTarget, lvm, table) ==
    LET pttoMaterial == FindOrBuildMaterial(materialName)
        built        == BuiltBy(table, materialName)
        same == [ err |-> "none", materialTable |-> built,
                  fTargetMaterial |-> tgtMat, lvMaterial |-> lvm ]
    IN  IF tgtMat = Unset                         \* line 324 reads the attribute
        THEN [same EXCEPT !.err = NoTargetMaterial]
        ELSE IF tgtMat # pttoMaterial /\ pttoMaterial # None
        THEN IF logicTarget = UnsetObj            \* line 327 reads the attribute
             THEN [same EXCEPT !.err = NoLogicTarget,
                               !.fTargetMaterial = pttoMaterial]
             ELSE [same EXCEPT !.fTargetMaterial = pttoMaterial,
                               !.lvMaterial = IF logicTarget # NoneObj
                                              THEN WithMaterial(lvm, logicTarget, pttoMaterial)
                                              ELSE lvm]
        ELSE same

RECURSIVE SetMaterialLoop(_, _, _, _, _)
SetMaterialLoop(copyNo, N, logicChamber, mat, lvm) ==
    IF copyNo >= N THEN lvm
    ELSE SetMaterialLoop(copyNo + 1, N, logicChamber, mat,
             IF logicChamber[copyNo + 1] # NoneObj
             THEN WithMaterial(lvm, logicChamber[copyNo + 1], mat) ELSE lvm)

SetChamberMaterial(materialName, chMat, N, logicChamber, lvm, table) ==
    LET pttoMaterial == FindOrBuildMaterial(materialName)
        built        == BuiltBy(table, materialName)
        same == [ err |-> "none", materialTable |-> built,
                  fChamberMaterial |-> chMat, lvMaterial |-> lvm ]
    IN  IF chMat = Unset                          \* line 336 reads the attribute
        THEN [same EXCEPT !.err = NoChamberMaterial]
        ELSE IF chMat # pttoMaterial /\ pttoMaterial # None
        THEN IF Len(logicChamber) < N             \* line 340 indexes the list
             THEN [same EXCEPT !.err = ChamberIndex,
                               !.fChamberMaterial = pttoMaterial,
                               !.lvMaterial = SetMaterialLoop(0, Len(logicChamber),
                                                  logicChamber, pttoMaterial, lvm)]
             ELSE [same EXCEPT !.fChamberMaterial = pttoMaterial,
                               !.lvMaterial = SetMaterialLoop(0, N, logicChamber,
                                                  pttoMaterial, lvm)]
        ELSE same

SetMaxStep(maxStep, stepLimit) ==
    IF stepLimit = << >>                          \* line 347 reads the attribute
    THEN [ err |-> NoStepLimit, fStepLimit |-> stepLimit ]
    ELSE [ err |-> "none",
           fStepLimit |-> IF maxStep > 0 THEN << maxStep >> ELSE stepLimit ]

----------------------------------------------------------------------------
(* B2aDetectorMessenger *)
fTargMatCmd == "/B2/det/setTargetMaterial"
fChamMatCmd == "/B2/det/setChamberMaterial"
fStepMaxCmd == "/B2/det/stepMax"
OtherCmd    == "/B2/det/unregistered"     \* a command object the messenger does not own

Commands == {fTargMatCmd, fChamMatCmd, fStepMaxCmd, OtherCmd}

(* AvailableForStates of lines 27, 32 and 38 *)
AvailableForStates(command) ==
    IF command = fStepMaxCmd THEN {"Idle"} ELSE {"PreInit", "Idle"}

MaterialNames == {"G4_Fe", "Unobtainium"}
LengthStrings == {"5 mm", "-1 cm"}

NewValues(command) == IF command = fStepMaxCmd THEN LengthStrings ELSE MaterialNames

(* G4UIcmdWithADoubleAndUnit.GetNewDoubleValue: "<value> <unit>" to the    *)
(* value in internal units.                                                *)
ValueToken(s) ==
    CASE s = "5 mm" -> 5  [] s = "-1 cm" -> 0 - 1  [] OTHER -> 0
UnitToken(s) ==
    CASE s = "5 mm" -> "mm"  [] s = "-1 cm" -> "cm"  [] OTHER -> "mm"
ValueOf(unit) == IF unit = "cm" THEN cm ELSE 1
GetNewDoubleValue(s) == ValueToken(s) * ValueOf(UnitToken(s))

SetterCall(setter, materialName, maxStep) ==
    [setter |-> setter, materialName |-> materialName, maxStep |-> maxStep]

(* Variant of SetNewValue: the two material commands exchanged. *)
SetNewValueExchanged(command, newValue) ==
    IF command = fTargMatCmd
    THEN << SetterCall("SetChamberMaterial", newValue, 0) >>
    ELSE IF command = fChamMatCmd
    THEN << SetterCall("SetTargetMaterial", newValue, 0) >>
    ELSE IF command = fStepMaxCmd
    THEN << SetterCall("SetMaxStep", "", GetNewDoubleValue(newValue)) >>
    ELSE << >>

(* B2aDetectorMessenger.SetNewValue: the detector setters it invokes. *)
SetNewValue(command, newValue) ==
    IF command = fTargMatCmd
    THEN << SetterCall("SetTargetMaterial", newValue, 0) >>
    ELSE IF command = fChamMatCmd
    THEN << SetterCall("SetChamberMaterial", newValue, 0) >>
    ELSE IF command = fStepMaxCmd
    THEN << SetterCall("SetMaxStep", "", GetNewDoubleValue(newValue)) >>
    ELSE << >>

----------------------------------------------------------------------------
(* B2TrackerSD and B2HitsCollection.  A collection object is an id into    *)
(* heap; heap keeps the objects still referenced.                          *)
hcID == 0       \* G4SDManager.GetCollectionID of the only collection registered

Steps == { [trackID |-> 1, copyNo |-> 0, edep |-> 0, pos |-> 0],
           [trackID |-> 2, copyNo |-> 1, edep |-> 3, pos |-> 10] }

B2TrackerHit(trackID, chamberNb, edep, pos, oid) ==
    [fTrackID |-> trackID, fChamberNb |-> chamberNb, fEdep |-> edep, fPos |-> pos,
     oid |-> oid]

(* Variant of Initialize: the new collection is not added to hce. *)
InitializeUnregistered(hceIn, hitsCollection, hp, new) ==
    [ fHitsCollection |-> new,
      heap |-> [i \in {new} |-> << >>],
      hce |-> hceIn ]

(* B2TrackerSD.Initialize: a new collection, registered in hce under hcID. *)
Initialize(hceIn, hitsCollection, hp, new) ==
    [ fHitsCollection |-> new,
      heap |-> [i \in {new} |-> << >>],
      hce |-> [hceIn EXCEPT ![hcID + 1] = new] ]

(* Variant of ProcessHits: no early return for a zero deposit. *)
ProcessHitsAnyDeposit(aStep, hitsCollection, hp, oid) ==
    IF hitsCollection = Missing
    THEN [ err |-> NoHitsCollection, ret |-> FALSE, heap |-> hp ]
    ELSE [ err |-> "none", ret |-> TRUE,
           heap |-> [hp EXCEPT ![hitsCollection] =
                        Append(@, B2TrackerHit(aStep.trackID, aStep.copyNo,
                                               aStep.edep, aStep.pos, oid))] ]

(* B2TrackerSD.ProcessHits; oid is the identity of the hit it may create. *)
ProcessHits(aStep, hitsCollection, hp, oid) ==
    LET edep == aStep.edep
    IN  IF edep = 0
        THEN [ err |-> "none", ret |-> FALSE, heap |-> hp ]
        ELSE IF hitsCollection = Missing          \* line 121 reads the attribute
        THEN [ err |-> NoHitsCollection, ret |-> FALSE, heap |-> hp ]
        ELSE [ err |-> "none", ret |-> TRUE,
               heap |-> [hp EXCEPT ![hitsCollection] =
                            Append(@, B2TrackerHit(aStep.trackID, aStep.copyNo,
                                                   edep, aStep.pos, oid))] ]

(* B2EventAction.EndOfEventAction: the hit count it prints, if it prints;  *)
(* out is the count printed last.                                          *)
EndOfEventAction(id, hceIn, hp, out) ==
    IF id < ReportEvery \/ id % ReportEvery = 0
    THEN IF hceIn[0 + 1] = NoneObj                \* GetHC(0) returns None
         THEN [ err |-> NoneGetSize, reported |-> out ]
         ELSE [ err |-> "none", reported |-> << Len(hp[hceIn[0 + 1]]) >> ]
    ELSE [ err |-> "none", reported |-> out ]

----------------------------------------------------------------------------
(* Initial states: the program just before line 472, the run manager and   *)
(* the B2aDetectorConstruction of line 445 created.                        *)
UiOf(n) == IF n = 1 THEN "G4UIExecutive" ELSE None          \* lines 434-436

InitWith(N, spacingCm, widthCm) ==
    /\ argc \in {1, 2}
    /\ ui = UiOf(argc)
    /\ pcMain = "start"
    /\ mainLog = << >>
    /\ err = "none"
    /\ appState = "PreInit"
    /\ materialTable = {}
    /\ lvMaterial = << >>
    /\ hce = << NoneObj >>
    /\ heap = << >>
    /\ runNo = 0 /\ eventID = 0 /\ toGo = 0
    /\ fNbOfChambers = N                                     \* line 140
    /\ fLogicChamber = << >>                                 \* line 141
    /\ fTargetMaterial = Unset
    /\ fChamberMaterial = Unset
    /\ fLogicTarget = UnsetObj
    /\ fStepLimit = << >>
    /\ chamberSpacing = spacingCm * cm                       \* line 164
    /\ chamberWidth = widthCm * cm                           \* line 166
    /\ nConstructs = 0
    /\ constructLog = << >>
    /\ constructRet = NoPV
    /\ fHitsCollection = Missing
    /\ lastCmd = [command |-> "", newValue |-> ""]     \* no call in progress
    /\ calls = << >>
    /\ reported = << >>
    /\ stepsThisEvent = << >>

(* The program as written. *)
Init == InitWith(NbOfChambers, ChamberSpacingCm, ChamberWidthCm)

(* The detector configurations DefineVolumes is checked over. *)
ChamberCounts == (0 .. MaxChambers) \cup {NbOfChambers}
Sizes == { << ChamberSpacingCm, ChamberWidthCm >>,
           << ChamberWidthCm, ChamberSpacingCm >>,
           << ChamberWidthCm, ChamberWidthCm >> }

InitConfig == \E N \in ChamberCounts, sz \in Sizes : InitWith(N, sz[1], sz[2])

----------------------------------------------------------------------------
(* The toolkit runs callbacks while a macro or the session is executing.   *)
ToolkitActive ==
    /\ err = "none"
    /\ pcMain \in {"vis.mac", "run1.mac", "gui.mac", "SessionStart"}

(* B2aDetectorConstruction.ConstructSDandField: a fresh B2TrackerSD, whose *)
(* fHitsCollection is not assigned before its first Initialize.            *)
ConstructSDandField == [ fHitsCollection |-> Missing, heap |-> << >> ]

(* The logical volumes the detector still refers to.  The toolkit's store  *)
(* keeps the others too, but nothing in the script can reach them.         *)
LiveVolumes(lvm, logicChamber) ==
    [x \in { y \in DOMAIN lvm : \E i \in DOMAIN logicChamber : logicChamber[i] = y }
        |-> lvm[x]]

NoCmd == [command |-> "", newValue |-> ""]

(* lastCmd and calls describe the SetNewValue call in progress only. *)
NoSetNewValue == lastCmd' = NoCmd /\ calls' = << >>

(* /run/initialize: G4RunManager.InitializeGeometry calls Construct and    *)
(* then ConstructSDandField.                                               *)
RunInitialize ==
    /\ ToolkitActive
    /\ appState \in {"PreInit", "Idle"}
    /\ nConstructs < MaxConstructs
    /\ LET d == [ fNbOfChambers |-> fNbOfChambers, chamberSpacing |-> chamberSpacing,
                  chamberWidth |-> chamberWidth, fLogicChamber |-> fLogicChamber,
                  fStepLimit |-> fStepLimit ]
           sd == ConstructSDandField
       IN  \E r \in { Construct(nConstructs + 1, d, materialTable,
                                LiveVolumes(lvMaterial, fLogicChamber)) } :
           /\ nConstructs' = nConstructs + 1
           /\ materialTable' = r.materialTable
           /\ fTargetMaterial' = r.fTargetMaterial
           /\ fChamberMaterial' = r.fChamberMaterial
           /\ fLogicTarget' = r.fLogicTarget
           /\ fLogicChamber' = r.fLogicChamber
           /\ lvMaterial' = r.lvMaterial
           /\ fStepLimit' = r.fStepLimit
           /\ constructLog' = r.log
           /\ constructRet' = r.ret
           /\ err' = r.err
           /\ appState' = IF r.err = "none" THEN "Idle"
                          ELSE IF r.err = FatalException THEN "Abort"
                          ELSE appState
           /\ fHitsCollection' = IF r.err = "none" THEN sd.fHitsCollection
                                 ELSE fHitsCollection
           /\ heap' = IF r.err = "none" THEN sd.heap ELSE heap
    /\ NoSetNewValue
    /\ UNCHANGED << mainVars, hce, runNo, eventID, toGo, fNbOfChambers,
                    chamberSpacing, chamberWidth, reported, stepsThisEvent >>

(* The effect of one detector setter on the detector and the toolkit. *)
ApplySetter(call) ==
    LET same == [ err |-> "none", materialTable |-> materialTable,
                  fTargetMaterial |-> fTargetMaterial,
                  fChamberMaterial |-> fChamberMaterial,
                  lvMaterial |-> lvMaterial, fStepLimit |-> fStepLimit ]
    IN  IF call.setter = "SetTargetMaterial"
        THEN LET r == SetTargetMaterial(call.materialName, fTargetMaterial,
                                        fLogicTarget, lvMaterial, materialTable)
             IN  [same EXCEPT !.err = r.err, !.materialTable = r.materialTable,
                              !.fTargetMaterial = r.fTargetMaterial,
                              !.lvMaterial = r.lvMaterial]
        ELSE IF call.setter = "SetChamberMaterial"
        THEN LET r == SetChamberMaterial(call.materialName, fChamberMaterial,
                                         fNbOfChambers, fLogicChamber, lvMaterial,
                                         materialTable)
             IN  [same EXCEPT !.err = r.err, !.materialTable = r.materialTable,
                              !.fChamberMaterial = r.fChamberMaterial,
                              !.lvMaterial = r.lvMaterial]
        ELSE LET r == SetMaxStep(call.maxStep, fStepLimit)
             IN  [same EXCEPT !.err = r.err, !.fStepLimit = r.fStepLimit]

(* A UI command of the messenger is applied: the toolkit checks that the   *)
(* command is available in the current state and calls SetNewValue.        *)
ApplyCommand ==
    /\ ToolkitActive
    /\ \E command \in Commands :
         \E newValue \in NewValues(command) :
           /\ appState \in AvailableForStates(command)
           /\ lastCmd' = [command |-> command, newValue |-> newValue]
           /\ calls' = SetNewValue(command, newValue)
           /\ IF calls' = << >>
              THEN UNCHANGED << err, materialTable, fTargetMaterial, fChamberMaterial,
                                lvMaterial, fStepLimit >>
              ELSE \E r \in { ApplySetter(calls'[1]) } :
                       /\ err' = r.err
                       /\ materialTable' = r.materialTable
                       /\ fTargetMaterial' = r.fTargetMaterial
                       /\ fChamberMaterial' = r.fChamberMaterial
                       /\ lvMaterial' = r.lvMaterial
                       /\ fStepLimit' = r.fStepLimit
    /\ UNCHANGED << mainVars, appState, hce, heap, runNo, eventID, toGo,
                    fNbOfChambers, fLogicChamber, fLogicTarget, chamberSpacing,
                    chamberWidth, nConstructs, constructLog, constructRet, sdVars >>

(* /run/beamOn n *)
BeamOn ==
    /\ ToolkitActive
    /\ appState = "Idle"
    /\ runNo < MaxRuns
    /\ \E n \in 1 .. MaxEventsPerRun : toGo' = n
    /\ runNo' = runNo + 1
    /\ eventID' = 0
    /\ appState' = "GeomClosed"
    /\ NoSetNewValue
    /\ UNCHANGED << mainVars, err, materialTable, lvMaterial, hce, heap,
                    detVars, sdVars >>

(* Start of an event: the toolkit makes the event's G4HCofThisEvent and    *)
(* calls B2TrackerSD.Initialize with it.                                   *)
BeginOfEvent ==
    /\ ToolkitActive
    /\ appState = "GeomClosed"
    /\ toGo > 0
    /\ LET new == Obj(runNo, "B2HitsCollection", eventID)
           r == Initialize(<< NoneObj >>, fHitsCollection, heap, new)
       IN  /\ fHitsCollection' = r.fHitsCollection
           /\ heap' = r.heap
           /\ hce' = r.hce
    /\ appState' = "EventProc"
    /\ stepsThisEvent' = << >>
    /\ NoSetNewValue
    /\ UNCHANGED << mainVars, err, materialTable, lvMaterial, runNo, eventID, toGo,
                    detVars, reported >>

(* The chambers the latest Construct placed: the volumes the SD sits in. *)
PlacedCopyNumbers ==
    { constructLog[i].copyNo : i \in { j \in DOMAIN constructLog :
                                         /\ constructLog[j].op = "G4PVPlacement"
                                         /\ constructLog[j].name = "Chamber_PV" } }

(* A step inside a chamber: the toolkit calls B2TrackerSD.ProcessHits. *)
Step ==
    /\ ToolkitActive
    /\ appState = "EventProc"
    /\ Len(stepsThisEvent) < MaxHits
    /\ \E aStep \in Steps :
         /\ aStep.copyNo \in PlacedCopyNumbers
         /\ LET oid == [run |-> runNo, event |-> eventID,
                        call |-> Len(stepsThisEvent) + 1]
                r == ProcessHits(aStep, fHitsCollection, heap, oid)
            IN  /\ heap' = r.heap
                /\ err' = r.err
                /\ stepsThisEvent' = Append(stepsThisEvent,
                                            [step |-> aStep, ret |-> r.ret])
    /\ NoSetNewValue
    /\ UNCHANGED << mainVars, appState, materialTable, lvMaterial, hce,
                    runNo, eventID, toGo, detVars, fHitsCollection, reported >>

(* End of an event: B2EventAction.EndOfEventAction, after which the        *)
(* toolkit deletes the event with its G4HCofThisEvent and the collections  *)
(* in it; the run ends with its last event.                                *)
EndOfEvent ==
    /\ ToolkitActive
    /\ appState = "EventProc"
    /\ LET r == EndOfEventAction(eventID, hce, heap, reported)
       IN  /\ reported' = r.reported
           /\ err' = r.err
    /\ hce' = << NoneObj >>
    /\ heap' = << >>
    /\ stepsThisEvent' = << >>
    /\ toGo' = toGo - 1
    /\ appState' = IF toGo' = 0 THEN "Idle" ELSE "GeomClosed"
    /\ eventID' = IF toGo' = 0 THEN 0 ELSE eventID + 1
    /\ NoSetNewValue
    /\ UNCHANGED << mainVars, materialTable, lvMaterial, runNo,
                    detVars, fHitsCollection >>

----------------------------------------------------------------------------
(* The main script, lines 472-476.  A macro or the session returns only    *)
(* between runs.                                                           *)
Returned == err = "none" /\ appState \in {"PreInit", "Idle"}

ExecuteVisMac ==                                              \* line 472
    /\ err = "none"
    /\ pcMain = "start"
    /\ pcMain' = "vis.mac"
    /\ mainLog' = Append(mainLog, "vis.mac")
    /\ NoSetNewValue
    /\ UNCHANGED << argc, ui, err, tkVars, detVars, sdVars >>

ExecuteRun1Mac ==                                             \* line 473
    /\ Returned
    /\ pcMain = "vis.mac"
    /\ pcMain' = "run1.mac"
    /\ mainLog' = Append(mainLog, "run1.mac")
    /\ NoSetNewValue
    /\ UNCHANGED << argc, ui, err, tkVars, detVars, sdVars >>

(* Lines 474-475: ui.IsGUI() and, when it answers True, gui.mac. *)
IsGUI ==
    /\ Returned
    /\ pcMain = "run1.mac"
    /\ IF ui = None
       THEN /\ err' = NoneIsGUI
            /\ UNCHANGED << pcMain, mainLog >>
       ELSE /\ err' = err
            /\ \E gui \in BOOLEAN :
                 IF gui
                 THEN /\ pcMain' = "gui.mac"
                      /\ mainLog' = mainLog \o << "IsGUI", "gui.mac" >>
                 ELSE /\ pcMain' = "no gui"
                      /\ mainLog' = Append(mainLog, "IsGUI")
    /\ NoSetNewValue
    /\ UNCHANGED << argc, ui, tkVars, detVars, sdVars >>

SessionStart ==                                               \* line 476
    /\ Returned
    /\ pcMain \in {"gui.mac", "no gui"}
    /\ IF ui = None
       THEN /\ err' = NoneSessionStart
            /\ UNCHANGED << pcMain, mainLog >>
       ELSE /\ err' = err
            /\ pcMain' = "SessionStart"
            /\ mainLog' = Append(mainLog, "SessionStart")
    /\ NoSetNewValue
    /\ UNCHANGED << argc, ui, tkVars, detVars, sdVars >>

(* The session ends and the script with it. *)
SessionExit ==
    /\ Returned
    /\ pcMain = "SessionStart"
    /\ pcMain' = "done"
    /\ NoSetNewValue
    /\ UNCHANGED << argc, ui, mainLog, err, tkVars, detVars, sdVars >>

----------------------------------------------------------------------------
Next ==
    \/ ExecuteVisMac
    \/ ExecuteRun1Mac
    \/ IsGUI
    \/ SessionStart
    \/ SessionExit
    \/ RunInitialize
    \/ ApplyCommand
    \/ BeamOn
    \/ BeginOfEvent
    \/ Step
    \/ EndOfEvent

Spec == Init /\ [][Next]_vars

SpecConfig == InitConfig /\ [][Next]_vars

----------------------------------------------------------------------------
(* Properties of the geometry construction *)

Placements ==
    SelectSeq(constructLog, LAMBDA e : e.op = "G4PVPlacement")

ChamberPlacements ==
    SelectSeq(constructLog, LAMBDA e : e.op = "G4PVPlacement" /\ e.name = "Chamber_PV")

ChamberCalls ==
    { i \in DOMAIN constructLog :
        constructLog[i].name \in {"Chamber_solid", "Chamber_LV", "Chamber_PV"} }

Constructed == nConstructs >= 1 /\ appState # "PreInit" /\ constructRet # NoPV

C1_TwoOrMoreChambers ==
    (nConstructs >= 1 /\ fNbOfChambers > 1 /\ chamberWidth > chamberSpacing)
        => /\ err = FatalException
           /\ ChamberCalls = {}
           /\ fLogicChamber = << >>

(* C5: every Construct returns, and the toolkit calls it made are in the   *)
(* fixed order: the materials first; then the world placed with no         *)
(* mother, the target and the tracker placed in the world, the chambers    *)
(* placed in the tracker with copy numbers 0, 1, ..., fNbOfChambers-1;     *)
(* every placement comes after the creation of its mother volume and uses  *)
(* a volume whose material is built; the world placement is returned.      *)
C5_ConstructionOrder ==
    nConstructs >= 1 =>
        LET P == Placements
            firstVolumeCall == CHOOSE i \in DOMAIN constructLog :
                                 /\ constructLog[i].op # "FindOrBuildMaterial"
                                 /\ \A j \in 1 .. i - 1 :
                                      constructLog[j].op = "FindOrBuildMaterial"
        IN  /\ Constructed
            /\ \A i \in DOMAIN constructLog :
                 constructLog[i].op = "FindOrBuildMaterial" <=> i < firstVolumeCall
            /\ { constructLog[i].mat : i \in 1 .. firstVolumeCall - 1 }
                   = {"G4_AIR", "G4_Pb", "G4_Xe"}
            /\ Len(P) = 3 + fNbOfChambers
            /\ P[1].name = "World" /\ P[1].mother = NoneObj
            /\ P[2].name = "Target" /\ P[2].mother = P[1].obj
            /\ P[3].name = "Tracker" /\ P[3].mother = P[1].obj
            /\ \A k \in 0 .. fNbOfChambers - 1 :
                 /\ P[4 + k].name = "Chamber_PV"
                 /\ P[4 + k].mother = P[3].obj
                 /\ P[4 + k].copyNo = k
            /\ \A i \in DOMAIN constructLog :
                 constructLog[i].op = "G4PVPlacement" =>
                   /\ constructLog[i].mother # NoneObj =>
                        \E j \in 1 .. i - 1 :
                          /\ constructLog[j].op = "G4LogicalVolume"
                          /\ constructLog[j].obj = constructLog[i].mother
                   /\ constructLog[i].obj \in DOMAIN lvMaterial
                   /\ lvMaterial[constructLog[i].obj] \in materialTable
            /\ \A i \in DOMAIN constructLog :
                 constructLog[i].op = "G4LogicalVolume" =>
                   \E j \in 1 .. i - 1 :
                     /\ constructLog[j].op = "FindOrBuildMaterial"
                     /\ constructLog[j].mat = constructLog[i].mat
            /\ constructRet = P[1]

C5_Reconstructed ==
    /\ Constructed /\ nConstructs = 2 /\ err = "none"
    /\ Len(ChamberPlacements) = NbOfChambers
    /\ fChamberMaterial = "G4_Fe"

(* C8: after any number of Construct calls fLogicChamber holds exactly     *)
(* fNbOfChambers logical volumes, and the chamber placed with copy number  *)
(* k is the logical volume created in iteration k of that same call.       *)
C8_ChambersOfThisConstruct ==
    Constructed =>
        /\ Len(fLogicChamber) = fNbOfChambers
        /\ \A i \in DOMAIN ChamberPlacements :
             ChamberPlacements[i].obj
                 = Obj(nConstructs, "Chamber_LV", ChamberPlacements[i].copyNo)

(* C8 as far as it holds: true of the first Construct. *)
C8_FirstConstruct ==
    (Constructed /\ nConstructs = 1) =>
        /\ Len(fLogicChamber) = fNbOfChambers
        /\ \A i \in DOMAIN ChamberPlacements :
             ChamberPlacements[i].obj
                 = Obj(nConstructs, "Chamber_LV", ChamberPlacements[i].copyNo)

----------------------------------------------------------------------------
(* Properties of the hit bookkeeping *)

TheCollection == heap[fHitsCollection]

(* The hits that the steps of the current event with a non-zero deposit    *)
(* give, in call order.                                                    *)
RECURSIVE HitsOf(_, _)
HitsOf(steps, n) ==
    IF n = 0 THEN << >>
    ELSE LET aStep == steps[n].step
             before == HitsOf(steps, n - 1)
         IN  IF aStep.edep # 0
             THEN Append(before,
                         [fTrackID |-> aStep.trackID, fChamberNb |-> aStep.copyNo,
                          fEdep |-> aStep.edep, fPos |-> aStep.pos,
                          oid |-> [run |-> runNo, event |-> eventID, call |-> n]])
             ELSE before

(* C2: every ProcessHits call with a non-zero deposit appends exactly one  *)
(* hit, made from the step, to the current collection and returns True;    *)
(* every call with a zero deposit returns False and leaves the collection  *)
(* as it was.                                                              *)
C2_HitIffDeposit ==
    [][ (Len(stepsThisEvent') = Len(stepsThisEvent) + 1) =>
          LET call == stepsThisEvent'[Len(stepsThisEvent')]
              aStep == call.step
          IN  IF aStep.edep # 0
              THEN /\ call.ret = TRUE
                   /\ Len(heap'[fHitsCollection]) = Len(heap[fHitsCollection]) + 1
                   /\ SubSeq(heap'[fHitsCollection], 1, Len(heap[fHitsCollection]))
                          = heap[fHitsCollection]
                   /\ LET h == heap'[fHitsCollection][Len(heap'[fHitsCollection])]
                      IN  /\ h.fTrackID = aStep.trackID
                          /\ h.fChamberNb = aStep.copyNo
                          /\ h.fEdep = aStep.edep
                          /\ h.fPos = aStep.pos
              ELSE /\ call.ret = FALSE
                   /\ heap' = heap ]_vars

C2_BothKindsOfStep ==
    /\ appState = "EventProc"
    /\ Len(stepsThisEvent) = 2
    /\ stepsThisEvent[1].step.edep = 0 /\ stepsThisEvent[1].ret = FALSE
    /\ stepsThisEvent[2].step.edep # 0 /\ stepsThisEvent[2].ret = TRUE
    /\ Len(TheCollection) = 1

(* C3: during every event the collection registered under hcID 0 is the    *)
(* sensitive detector's current collection and holds exactly the hits of   *)
(* this event's ProcessHits calls with non-zero deposit, in call order     *)
(* (none made in another event); and the count EndOfEventAction reports    *)
(* at the end of the event is the number of those hits.                    *)
C3_PerEventCollection ==
    /\ [] ( (appState = "EventProc" /\ err = "none") =>
              /\ hce[hcID + 1] = fHitsCollection
              /\ fHitsCollection \in DOMAIN heap
              /\ TheCollection = HitsOf(stepsThisEvent, Len(stepsThisEvent))
              /\ \A i \in DOMAIN TheCollection :
                   /\ TheCollection[i].oid.run = runNo
                   /\ TheCollection[i].oid.event = eventID )
    /\ [][ (appState = "EventProc" /\ appState' # "EventProc") =>
              /\ err' = "none"
              /\ reported' = << Len(HitsOf(stepsThisEvent, Len(stepsThisEvent))) >> ]_vars

C3_SecondEventAfterHits ==
    /\ appState = "EventProc"
    /\ eventID = 1
    /\ reported = << 2 >>
    /\ Len(stepsThisEvent) = 2
    /\ Len(TheCollection) = 1

----------------------------------------------------------------------------
(* Properties of the messenger and the main script *)

(* C4: SetNewValue calls exactly one setter for each registered command,   *)
(* the one that belongs to it, with the given string (for stepMax: with    *)
(* the value in internal units), and none of the other setters' fields     *)
(* changes; for any other command it calls nothing and the detector        *)
(* construction stays as it was.                                           *)
C4_Dispatch ==
    /\ [] ( lastCmd # NoCmd =>
              /\ lastCmd.command = fTargMatCmd =>
                    calls = << [setter |-> "SetTargetMaterial",
                                materialName |-> lastCmd.newValue, maxStep |-> 0] >>
              /\ lastCmd.command = fChamMatCmd =>
                    calls = << [setter |-> "SetChamberMaterial",
                                materialName |-> lastCmd.newValue, maxStep |-> 0] >>
              /\ lastCmd.command = fStepMaxCmd =>
                    /\ Len(calls) = 1
                    /\ calls[1].setter = "SetMaxStep"
                    /\ lastCmd.newValue = "5 mm" => calls[1].maxStep = 5
                    /\ lastCmd.newValue = "-1 cm" => calls[1].maxStep = 0 - 10
              /\ lastCmd.command \notin {fTargMatCmd, fChamMatCmd, fStepMaxCmd} =>
                    calls = << >> )
    /\ [][ lastCmd' # NoCmd =>
              /\ lastCmd'.command # fTargMatCmd => fTargetMaterial' = fTargetMaterial
              /\ lastCmd'.command # fChamMatCmd => fChamberMaterial' = fChamberMaterial
              /\ lastCmd'.command # fStepMaxCmd => fStepLimit' = fStepLimit
              /\ lastCmd'.command \notin {fTargMatCmd, fChamMatCmd, fStepMaxCmd} =>
                    UNCHANGED << detVars, lvMaterial, materialTable >> ]_vars

C4_EachCommandApplied ==
    /\ lastCmd = [command |-> fStepMaxCmd, newValue |-> "5 mm"]
    /\ fStepLimit = << 5 >>
    /\ fTargetMaterial = "G4_Fe"
    /\ fChamberMaterial = "G4_Fe"

(* C6: whenever setTargetMaterial or setChamberMaterial has been applied   *)
(* in a state the messenger declares it available for, the setter raised   *)
(* no error, and the stored target (chamber) material is the requested     *)
(* material if that material exists.                                       *)
C6_MaterialCommandsSucceed ==
    /\ lastCmd.command = fTargMatCmd =>
         /\ err = "none"
         /\ FindOrBuildMaterial(lastCmd.newValue) # None =>
              fTargetMaterial = lastCmd.newValue
    /\ lastCmd.command = fChamMatCmd =>
         /\ err = "none"
         /\ FindOrBuildMaterial(lastCmd.newValue) # None =>
              fChamberMaterial = lastCmd.newValue

(* C6 as far as it holds: true of the commands applied after Construct. *)
C6_AfterConstruct ==
    nConstructs >= 1 => C6_MaterialCommandsSucceed

(* C7: the script calls IsGUI and SessionStart only on a session that      *)
(* exists; with a session it executes vis.mac, run1.mac, gui.mac only if   *)
(* the session is a GUI, and then starts the session; without one it       *)
(* executes the macros and raises no error on the missing session.         *)
C7_SessionOnlyWhenPresent ==
    /\ err \notin {NoneIsGUI, NoneSessionStart}
    /\ (ui # None /\ pcMain \in {"SessionStart", "done"}) =>
          mainLog \in { << "vis.mac", "run1.mac", "IsGUI", "gui.mac", "SessionStart" >>,
                        << "vis.mac", "run1.mac", "IsGUI", "SessionStart" >> }
    /\ "IsGUI" \in { mainLog[i] : i \in DOMAIN mainLog } => ui # None

(* C7 as far as it holds: true of the interactive mode. *)
C7_Interactive ==
    argc = 1 => C7_SessionOnlyWhenPresent

====
